---- MODULE Spec2Model ----
(***************************************************************************)
(* Model of retriever/retriever.py: the chunker                            *)
(* split_document_with_overlap, the engine constructors with their corpus  *)
(* cache, and the retrieve operations of Retriever, HybridRetriever and    *)
(* TriRetriever.                                                           *)
(*                                                                         *)
(* A text is a sequence of one-character strings.  Cosine similarities are *)
(* integer levels 0..MaxSim (a monotone rescaling of the real values); the *)
(* weights alpha = 1 and beta = 0.7 are kept as 10 and 7 in tenths.       *)
(***************************************************************************)
EXTENDS Integers, Sequences, FiniteSets, TLC

VARIABLES call, run, fs, ctor

vars == <<call, run, fs, ctor>>

\* ------------------------------------------------------------------------
\* Bounds of the model
\* ------------------------------------------------------------------------
MaxCands == 3
MaxTriCands == 2
MaxSim == 2
MaxDistractorSim == 1
MaxK == 3
MaxDocLen == 4
MaxChunk == 3

\* ------------------------------------------------------------------------
\* Python primitives
\* ------------------------------------------------------------------------
Min(a, b) == IF a < b THEN a ELSE b

\* seq[lo:hi] for 0 <= lo, 0 <= hi (0-based, end exclusive, clamped)
PySlice(seq, lo, hi) ==
    IF lo >= Min(hi, Len(seq)) THEN <<>>
    ELSE SubSeq(seq, lo + 1, Min(hi, Len(seq)))

\* seq[:k + 1]: a cut one element too late
Take_OneTooMany(seq, k) == PySlice(seq, 0, k + 1)

\* seq[:k] for k >= 0
Take(seq, k) == PySlice(seq, 0, k)

\* seq[::-1]
Reverse(seq) == [i \in 1..Len(seq) |-> seq[Len(seq) + 1 - i]]

Whitespace == {" ", "\n", "\t"}

RECURSIVE lstrip(_)
lstrip(s) ==
    IF Len(s) > 0 /\ s[1] \in Whitespace THEN lstrip(Tail(s)) ELSE s

RECURSIVE rstrip(_)
rstrip(s) ==
    IF Len(s) > 0 /\ s[Len(s)] \in Whitespace
    THEN rstrip(SubSeq(s, 1, Len(s) - 1)) ELSE s

\* str.strip()
strip(s) == rstrip(lstrip(s))

\* "\n".join(list)
RECURSIVE join(_)
join(list) ==
    IF Len(list) = 0 THEN <<>>
    ELSE IF Len(list) = 1 THEN list[1]
    ELSE list[1] \o <<"\n">> \o join(Tail(list))

\* str.lower() on the return_type values the callers pass
lower(s) ==
    CASE s = "LIST" -> "list"
      [] s = "Text" -> "text"
      [] s = "STR" -> "str"
      [] s = "String" -> "string"
      [] s = "XML" -> "xml"
      [] OTHER -> s

TextTypes == {"text", "str", "string"}
ListTypes == {"list"}
AcceptedTypes == {"list", "text", "str", "string"}

\* ------------------------------------------------------------------------
\* Input domains
\* ------------------------------------------------------------------------
ReturnTypes == {"list", "Text", "string", "xml"}

Passages == {<<"a">>, <<"b", " ">>}

Queries == {<<"q">>}

Distractors == {<<>>, <<"x">>, <<"x", "x">>}

Levels == 0..MaxSim

\* similarity levels of a passage to a distractor text
DistractorLevels == 0..MaxDistractorSim

SeqsUpTo(S, n) == UNION {[1..m -> S] : m \in 0..n}

CandidateLists == SeqsUpTo(Passages, MaxCands)

\* the candidate lists a caller hands to the contrastive engine
TriCandidateLists == SeqsUpTo(Passages, MaxTriCands)

\* what embed_documents(text) embeds when handed one string: the string is
\* iterated, so each character is embedded as a text of its own
CharTexts(text) == [j \in 1..Len(text) |-> <<text[j]>>]

\* the texts the Embedding Service may be asked about for a distractor:
\* the distractor as a whole, and each of its characters
DistractorTexts(d) == {d} \cup {<<d[j]>> : j \in 1..Len(d)}

None == [kind |-> "None", value |-> <<>>]
PyList(l) == [kind |-> "list", value |-> l]
PyStr(s) == [kind |-> "str", value |-> s]

\* ------------------------------------------------------------------------
\* Embedding Service and numpy / sklearn calls
\* ------------------------------------------------------------------------
\* An embedding vector is named by the text it embeds; sim[y][x] is the
\* cosine similarity of the vectors of text y and passage x.
embed_query(text) == text

embed_documents(texts) == texts

\* a similarity call that accepts an empty first argument
cosine_similarity_raises_SecondOnly(X, Y) == Len(Y) = 0

\* sklearn rejects an input without samples (check_array raises ValueError)
cosine_similarity_raises(X, Y) == Len(X) = 0 \/ Len(Y) = 0

\* cosine_similarity(X, Y): a Len(X) x Len(Y) matrix, as a sequence of rows
cosine_similarity(X, Y, sim) ==
    [i \in 1..Len(X) |-> [j \in 1..Len(Y) |-> sim[Y[j]][X[i]]]]

NumCols(M) == IF Len(M) = 0 THEN 0 ELSE Len(M[1])

Permutations0(n) ==
    {p \in [1..n -> 0..(n - 1)] : \A i, j \in 1..n : i # j => p[i] # p[j]}

\* a sort that is already descending
InOrder_Descending(a, b) == a >= b

\* the order argsort puts two values in
InOrder(a, b) == a <= b

\* np.argsort(M, axis=0): per column, the 0-based row indices that sort the
\* column ascending.  The default kind is not a stable sort, so rows with
\* equal values may come out in either order.
argsort(M) ==
    LET n == Len(M)
        m == NumCols(M)
        SortedCols(j) ==
            {p \in Permutations0(n) :
                \A i \in 1..(n - 1) : InOrder(M[p[i] + 1][j], M[p[i + 1] + 1][j])}
    IN  {[i \in 1..n |-> [j \in 1..m |-> cols[j][i]]] :
            cols \in {c \in [1..m -> Permutations0(n)] :
                         \A j \in 1..m : c[j] \in SortedCols(j)}}

alpha == 10
beta == 7

\* alpha * cosine_similarities + beta * irrelevant_cosine_similarities,
\* numpy broadcasting the n x 1 matrix over the n x m one
final_similarities(cos, irr) ==
    [i \in 1..Len(irr) |->
        [j \in 1..Len(irr[i]) |-> alpha * cos[i][1] + beta * irr[i][j]]]

\* [passages_list[idx_array[0]] for idx_array in top_k_indices]
PickPassages(passages_list, top_k_indices) ==
    [r \in 1..Len(top_k_indices) |-> passages_list[top_k_indices[r][1] + 1]]

\* the return_type branches shared by _rerank_passages and _tri_retrieve
RECURSIVE ConcatLines(_)
ConcatLines(list) ==
    IF Len(list) = 0 THEN <<>>
    ELSE list[1] \o <<"\n">> \o ConcatLines(Tail(list))

FormatReranked(reranked_passages_list, return_type) ==
    IF lower(return_type) \in TextTypes
    THEN PyStr(strip(ConcatLines(reranked_passages_list)))
    ELSE IF lower(return_type) \in ListTypes
    THEN PyList(reranked_passages_list)
    ELSE None


\* ------------------------------------------------------------------------
\* Retrieval: the record of the last call and what it did
\* ------------------------------------------------------------------------
NoSim == [t \in {} |-> 0]

NoCall ==
    [op |-> "none", query |-> <<>>, irrelevant_document |-> <<>>,
     return_type |-> "list", reranking_top_k |-> 0, passages_list |-> <<>>,
     sim |-> NoSim, outcome |-> "none", err |-> "none", result |-> None,
     docs |-> <<>>, lex_calls |-> 0, emb_calls |-> 0, top_k_indices |-> <<>>]

Raised(err, emb) ==
    [outcome |-> "raised", err |-> err, result |-> None, emb_calls |-> emb,
     top_k_indices |-> <<>>]

Returned(result, emb, idx) ==
    [outcome |-> "returned", err |-> "none", result |-> result,
     emb_calls |-> emb, top_k_indices |-> idx]

\* HybridRetriever._rerank_passages: the set of ways the call can end
rerank_passages(query, passages_list, return_type, reranking_top_k, sim) ==
    LET embedded_query == embed_query(query)
        embedded_documents == embed_documents(passages_list)
        embedded_query_reshaped == <<embedded_query>>
    IN  IF cosine_similarity_raises(embedded_documents, embedded_query_reshaped)
        THEN {Raised("ValueError", 2)}
        ELSE LET cosine_similarities ==
                     cosine_similarity(embedded_documents,
                                       embedded_query_reshaped, sim)
             IN  {LET top_k_indices == Take(Reverse(sorted), reranking_top_k)
                      reranked_passages_list ==
                          PickPassages(passages_list, top_k_indices)
                  IN  Returned(FormatReranked(reranked_passages_list, return_type),
                               2, top_k_indices) :
                  sorted \in argsort(cosine_similarities)}

\* TriRetriever._tri_retrieve: the set of ways the call can end.  The
\* distractor is handed to embed_documents as one string, which embeds each
\* of its characters.
tri_retrieve(query, irrelevant_document, passages_list, return_type, sim) ==
    LET embedded_query == embed_query(query)
        embedded_documents == embed_documents(passages_list)
        embedded_query_reshaped == <<embedded_query>>
    IN  IF cosine_similarity_raises(embedded_documents, embedded_query_reshaped)
        THEN {Raised("ValueError", 2)}
        ELSE
        LET cosine_similarities ==
                cosine_similarity(embedded_documents, embedded_query_reshaped, sim)
            embedded_irrelevant_document ==
                embed_documents(CharTexts(irrelevant_document))
        IN  IF cosine_similarity_raises(embedded_documents,
                                        embedded_irrelevant_document)
            THEN {Raised("ValueError", 3)}
            ELSE
            LET irrelevant_cosine_similarities ==
                    cosine_similarity(embedded_documents,
                                      embedded_irrelevant_document, sim)
                final == final_similarities(cosine_similarities,
                                            irrelevant_cosine_similarities)
            IN  {LET top_k_indices == Take(Reverse(sorted), 1)
                     reranked_passages_list ==
                         PickPassages(passages_list, top_k_indices)
                 IN  Returned(FormatReranked(reranked_passages_list, return_type),
                              3, top_k_indices) :
                 sorted \in argsort(final)}

\* the return_type a public TriRetriever.retrieve call hands to _tri_retrieve:
\* the call passes no return_type, so the default applies
TriReturnType(return_type) == "list"

\* Retriever.retrieve's two branches
FormatLexical(passages, return_type) ==
    IF lower(return_type) = "list"
    THEN PyList(passages)
    ELSE IF lower(return_type) \in TextTypes
    THEN PyStr(join(passages))
    ELSE None

\* the assert that opens HybridRetriever.retrieve and retrieve_with_docs
ReturnTypeAccepted(return_type) == lower(return_type) \in AcceptedTypes

\* Retrieval keeps nothing from one call to the next and the engines are
\* single-threaded: every call starts from the idle engine.
Idle == call.op = "none"

Hybrid(op) ==
    \E query \in Queries, return_type \in ReturnTypes, k \in 1..MaxK :
        IF ~ReturnTypeAccepted(return_type)
        THEN call' = [NoCall EXCEPT !.op = op, !.query = query,
                          !.return_type = return_type, !.reranking_top_k = k,
                          !.outcome = "raised", !.err = "AssertionError"]
        ELSE \E passages_list \in CandidateLists,
                sim \in [{query} -> [Passages -> Levels]] :
             \E end \in rerank_passages(query, passages_list, return_type, k, sim) :
                call' = [op |-> op, query |-> query, irrelevant_document |-> <<>>,
                         return_type |-> return_type, reranking_top_k |-> k,
                         passages_list |-> passages_list, sim |-> sim,
                         outcome |-> end.outcome, err |-> end.err,
                         result |-> end.result,
                         docs |-> IF op = "retrieve_with_docs"
                                     /\ end.outcome = "returned"
                                  THEN passages_list ELSE <<>>,
                         lex_calls |-> 1, emb_calls |-> end.emb_calls,
                         top_k_indices |-> end.top_k_indices]

HybridRetriever_retrieve ==
    /\ Idle
    /\ Hybrid("HybridRetriever.retrieve")
    /\ UNCHANGED <<run, fs, ctor>>

HybridRetriever_retrieve_with_docs ==
    /\ Idle
    /\ Hybrid("retrieve_with_docs")
    /\ UNCHANGED <<run, fs, ctor>>

Retriever_retrieve ==
    /\ Idle
    /\ \E query \in Queries, return_type \in ReturnTypes,
          list_of_document \in CandidateLists :
          call' = [NoCall EXCEPT !.op = "Retriever.retrieve", !.query = query,
                       !.return_type = return_type,
                       !.passages_list = list_of_document,
                       !.outcome = "returned",
                       !.result = FormatLexical(list_of_document, return_type),
                       !.lex_calls = 1]
    /\ UNCHANGED <<run, fs, ctor>>

TriRetriever_retrieve ==
    /\ Idle
    /\ \E query \in Queries, irrelevant_document \in Distractors,
          passages_list \in TriCandidateLists, return_type \in ReturnTypes :
       \E sim_q \in [Passages -> Levels],
          sim_d \in [DistractorTexts(irrelevant_document)
                        -> [Passages -> DistractorLevels]] :
       LET sim == [t \in {query} \cup DistractorTexts(irrelevant_document) |->
                      IF t = query THEN sim_q ELSE sim_d[t]] IN
       \E end \in tri_retrieve(query, irrelevant_document, passages_list,
                               TriReturnType(return_type), sim) :
          call' = [op |-> "TriRetriever.retrieve", query |-> query,
                   irrelevant_document |-> irrelevant_document,
                   return_type |-> return_type, reranking_top_k |-> 0,
                   passages_list |-> passages_list, sim |-> sim,
                   outcome |-> end.outcome, err |-> end.err,
                   result |-> end.result, docs |-> <<>>,
                   lex_calls |-> 0, emb_calls |-> end.emb_calls,
                   top_k_indices |-> end.top_k_indices]
    /\ UNCHANGED <<run, fs, ctor>>


\* ------------------------------------------------------------------------
\* The chunker
\* ------------------------------------------------------------------------
Chars == {"a", "b"}

Documents == SeqsUpTo(Chars, MaxDocLen)

\* start += chunk_size: the overlap is dropped
NextStart_NoOverlap(start, chunk_size, overlap_size) == start + chunk_size

\* start += (chunk_size - overlap_size)
NextStart(start, chunk_size, overlap_size) ==
    start + (chunk_size - overlap_size)

\* the while loop of split_document_with_overlap, one iteration per unfolding
RECURSIVE SplitLoop(_, _, _, _, _)
SplitLoop(document, chunk_size, overlap_size, start, chunks) ==
    IF ~(start < Len(document)) THEN chunks
    ELSE LET end == start + chunk_size
             chunk == PySlice(document, start, end)
         IN  IF Len(chunk) < chunk_size
             THEN Append(chunks, chunk)
             ELSE SplitLoop(document, chunk_size, overlap_size,
                            NextStart(start, chunk_size, overlap_size),
                            Append(chunks, chunk))

split_document_with_overlap(document, chunk_size, overlap_size) ==
    SplitLoop(document, chunk_size, overlap_size, 0, <<>>)

NoRun ==
    [called |-> FALSE, document |-> <<>>, chunk_size |-> 1,
     overlap_size |-> 0, chunks |-> <<>>]

SplitDocument ==
    /\ \E document \in Documents, chunk_size \in 1..MaxChunk :
       \E overlap_size \in 0..(chunk_size - 1) :
          run' = [called |-> TRUE, document |-> document,
                  chunk_size |-> chunk_size, overlap_size |-> overlap_size,
                  chunks |-> split_document_with_overlap(document, chunk_size,
                                                         overlap_size)]
    /\ UNCHANGED <<call, fs, ctor>>

\* ------------------------------------------------------------------------
\* Engine construction and the corpus cache
\* ------------------------------------------------------------------------
\* a path is its sequence of components
dirname(path) == SubSeq(path, 1, Len(path) - 1)
basename(path) == path[Len(path)]

InputFiles == {<<"data", "a.jsonl">>, <<"data", "b.jsonl">>}
ChunkSizes == {100, 200}
ChunkOverlaps == {0}

Sections ==
    [input_file_path : InputFiles, retrieval_chunk_size : ChunkSizes,
     retrieval_chunk_overlap : ChunkOverlaps]

\* the yaml configuration: one section per engine class
Configs == [Retriever : Sections, HybridRetriever : Sections]

\* f"split_docs_cache-{basename}-chunk_size_{size}-chunk_overlap_{overlap}.pkl"
\* in the directory of the HybridRetriever section's input file; both
\* constructors build the name from the Retriever section
cache_file_path(config) ==
    Append(dirname(config.HybridRetriever.input_file_path),
           <<"split_docs_cache",
             basename(config.Retriever.input_file_path),
             config.Retriever.retrieval_chunk_size,
             config.Retriever.retrieval_chunk_overlap>>)

\* loader.load_and_split(text_splitter): the corpus is named by what it was
\* chunked from; corpora of different inputs are taken to differ
load_and_split(section) ==
    [file_path |-> section.input_file_path,
     chunk_size |-> section.retrieval_chunk_size,
     chunk_overlap |-> section.retrieval_chunk_overlap]

NoCorpus == [file_path |-> <<>>, chunk_size |-> 0, chunk_overlap |-> 0]

\* pickle.dump(split_docs, f, pickle.HIGHEST_PROTOCOL) and pickle.load(f)
pickle_dump(obj) == [protocol |-> "HIGHEST_PROTOCOL", payload |-> obj]
pickle_load(blob) == blob.payload

\* the section each constructor loads and chunks its corpus from
OwnSection(cls, config) ==
    IF cls = "Retriever" THEN config.Retriever ELSE config.HybridRetriever

NoIndex == [docs |-> NoCorpus, built |-> FALSE]

\* BM25Retriever.from_documents(split_docs, k=...)
from_documents(split_docs) == [docs |-> split_docs, built |-> TRUE]

NoCtor ==
    [cls |-> "none", config |-> CHOOSE c \in Configs : TRUE,
     use_cache |-> FALSE, cache_file_path |-> <<>>, hit |-> FALSE,
     self_split_docs |-> NoCorpus, langchain_retriever |-> NoIndex,
     outcome |-> "none", err |-> "none"]

\* Retriever.__init__ and HybridRetriever.__init__.  On a cache hit the
\* corpus is stored in self.split_docs and the local split_docs that
\* from_documents reads is never bound.
Construct(cls) ==
    \E config \in Configs, use_cache \in BOOLEAN :
        LET path == cache_file_path(config)
            hit == use_cache /\ path \in DOMAIN fs
            split_docs == load_and_split(OwnSection(cls, config))
        IN  IF hit
            THEN /\ ctor' = [cls |-> cls, config |-> config,
                             use_cache |-> use_cache, cache_file_path |-> path,
                             hit |-> TRUE,
                             self_split_docs |-> pickle_load(fs[path].data),
                             langchain_retriever |-> NoIndex,
                             outcome |-> "raised", err |-> "UnboundLocalError"]
                 /\ fs' = fs
            ELSE /\ ctor' = [cls |-> cls, config |-> config,
                             use_cache |-> use_cache, cache_file_path |-> path,
                             hit |-> FALSE, self_split_docs |-> NoCorpus,
                             langchain_retriever |-> from_documents(split_docs),
                             outcome |-> "constructed", err |-> "none"]
                 /\ fs' = IF use_cache
                          THEN [q \in DOMAIN fs \cup {path} |->
                                   IF q = path
                                   THEN [data |-> pickle_dump(split_docs),
                                         written_by |-> cls]
                                   ELSE fs[q]]
                          ELSE fs

Retriever_init ==
    /\ Construct("Retriever")
    /\ UNCHANGED <<call, run>>

HybridRetriever_init ==
    /\ Construct("HybridRetriever")
    /\ UNCHANGED <<call, run>>

\* ------------------------------------------------------------------------
\* Specifications
\* ------------------------------------------------------------------------
Init ==
    /\ call = NoCall
    /\ run = NoRun
    /\ fs = [q \in {} |-> 0]
    /\ ctor = NoCtor

NextRetrieve ==
    \/ Retriever_retrieve
    \/ HybridRetriever_retrieve
    \/ HybridRetriever_retrieve_with_docs
    \/ TriRetriever_retrieve

NextChunk == SplitDocument

NextCache ==
    \/ Retriever_init
    \/ HybridRetriever_init

Next == NextRetrieve \/ NextChunk \/ NextCache

SpecRetrieve == Init /\ [][NextRetrieve]_vars

SpecChunk == Init /\ [][NextChunk]_vars

SpecCache == Init /\ [][NextCache]_vars


\* ------------------------------------------------------------------------
\* Properties of the retrieve operations
\* ------------------------------------------------------------------------
HybridOps == {"HybridRetriever.retrieve", "retrieve_with_docs"}

\* cosine similarity of a passage to the query of the last call
SimQ(p) == call.sim[call.query][p]

\* the candidate positions (1-based) the last call selected, in result order
Selected == [r \in 1..Len(call.top_k_indices) |-> call.top_k_indices[r][1] + 1]

Injective(f) == \A i, j \in DOMAIN f : i # j => f[i] # f[j]

\* C1 as stated: for every candidate list of size n and every k >= 1,
\* HybridRetriever.retrieve with return_type "list" returns exactly min(n, k)
\* passages, each an element of the candidate list, none appearing twice.
\* (Stated for n >= 1; the empty candidate list is the subject of C7.)
C1_Original ==
    (/\ call.op = "HybridRetriever.retrieve"
     /\ lower(call.return_type) = "list"
     /\ Len(call.passages_list) >= 1)
    => /\ call.outcome = "returned"
       /\ call.result.kind = "list"
       /\ Len(call.result.value) =
              Min(Len(call.passages_list), call.reranking_top_k)
       /\ \A j \in 1..Len(call.result.value) :
              \E i \in 1..Len(call.passages_list) :
                  call.result.value[j] = call.passages_list[i]
       /\ Injective(call.result.value)

\* C1 amended: for every non-empty candidate list of size n and every
\* k >= 1, HybridRetriever.retrieve with return_type "list" returns exactly
\* min(n, k) passages, taken from pairwise distinct positions of the
\* candidate list (a text is repeated in the result only if it is repeated
\* among the candidates).
C1_RerankWidth ==
    (/\ call.op = "HybridRetriever.retrieve"
     /\ lower(call.return_type) = "list"
     /\ Len(call.passages_list) >= 1)
    => /\ call.outcome = "returned"
       /\ call.result.kind = "list"
       /\ Len(call.result.value) =
              Min(Len(call.passages_list), call.reranking_top_k)
       /\ \E pos \in [1..Len(call.result.value) -> 1..Len(call.passages_list)] :
              /\ Injective(pos)
              /\ \A j \in 1..Len(call.result.value) :
                     call.result.value[j] = call.passages_list[pos[j]]

C1_Witness ==
    /\ call.op = "HybridRetriever.retrieve"
    /\ call.return_type = "list"
    /\ Len(call.passages_list) = 3
    /\ call.reranking_top_k = 2
    /\ call.outcome = "returned"
    /\ Len(call.result.value) = 2

\* position i precedes position j in a stable descending sort by similarity
StableBefore(i, j) ==
    \/ SimQ(call.passages_list[i]) > SimQ(call.passages_list[j])
    \/ SimQ(call.passages_list[i]) = SimQ(call.passages_list[j]) /\ i < j

StableTopK ==
    LET n == Len(call.passages_list)
    IN  [r \in 1..Min(n, call.reranking_top_k) |->
            call.passages_list[
                CHOOSE i \in 1..n :
                    Cardinality({j \in 1..n : StableBefore(j, i)}) = r - 1]]

\* C2 as stated: HybridRetriever.retrieve returns the selected candidates in
\* descending order of similarity and the sort is stable: of two candidates
\* with equal similarity the earlier one of the Lexical Index's output comes
\* first, and is the one kept when only one of them fits in the top k.
C2_Original ==
    (/\ call.op = "HybridRetriever.retrieve"
     /\ lower(call.return_type) = "list"
     /\ call.outcome = "returned")
    => call.result.value = StableTopK

\* C2 amended: HybridRetriever.retrieve returns the selected candidates in
\* descending (non-increasing) order of cosine similarity to the query, and
\* no candidate left out has a strictly greater similarity than a selected
\* one; the order among candidates of exactly equal similarity, and which of
\* them is kept at the cut, is not fixed.
C2_DescendingTopK ==
    (call.op \in HybridOps /\ call.outcome = "returned")
    => /\ \A r \in 1..(Len(Selected) - 1) :
              SimQ(call.passages_list[Selected[r]])
                  >= SimQ(call.passages_list[Selected[r + 1]])
       /\ \A i \in 1..Len(call.passages_list) :
              (\A r \in 1..Len(Selected) : Selected[r] # i)
              => \A r \in 1..Len(Selected) :
                     SimQ(call.passages_list[i])
                         <= SimQ(call.passages_list[Selected[r]])
       /\ lower(call.return_type) = "list"
              => call.result.value =
                     [r \in 1..Len(Selected) |-> call.passages_list[Selected[r]]]

C2_Witness ==
    /\ call.op = "HybridRetriever.retrieve"
    /\ call.return_type = "list"
    /\ call.outcome = "returned"
    /\ call.reranking_top_k = 1
    /\ Len(call.passages_list) = 2
    /\ SimQ(call.passages_list[1]) = SimQ(call.passages_list[2])
    /\ call.passages_list[1] # call.passages_list[2]
    /\ call.result.value = <<call.passages_list[2]>>

\* the composite score of candidate i against the embedding of the whole
\* distractor passage
WholeScore(i) ==
    alpha * SimQ(call.passages_list[i])
        + beta * call.sim[call.irrelevant_document][call.passages_list[i]]

\* C3: for every non-empty candidate list, query and (non-empty) distractor, the
\* contrastive engine returns exactly one passage, a candidate maximising
\* 1.0 * sim_q + 0.7 * sim_d, with sim_d the similarity to the embedding of
\* the whole distractor passage.
C3_ContrastiveTop1 ==
    (/\ call.op = "TriRetriever.retrieve"
     /\ Len(call.passages_list) >= 1
     /\ Len(call.irrelevant_document) >= 1)
    => /\ call.outcome = "returned"
       /\ Len(call.result.value) = 1
       /\ \E i \in 1..Len(call.passages_list) :
              /\ call.result.value[1] = call.passages_list[i]
              /\ \A j \in 1..Len(call.passages_list) :
                     WholeScore(j) <= WholeScore(i)

\* C4: on every engine a call whose return_type is not accepted ends in an
\* error raised before any Lexical Index call and any Embedding Service
\* call; no such call returns a value.
C4_InvalidReturnType ==
    (call.op # "none" /\ ~ReturnTypeAccepted(call.return_type))
    => /\ call.outcome = "raised"
       /\ call.lex_calls = 0
       /\ call.emb_calls = 0

\* C5: the contrastive engine's public retrieve formats its output by the
\* return_type the caller passes: text-like gives the selected passage as one
\* string with trailing whitespace trimmed, "list" a one-element sequence.
C5_ContrastiveFormat ==
    (call.op = "TriRetriever.retrieve" /\ call.outcome = "returned")
    => /\ lower(call.return_type) \in TextTypes
              => call.result = PyStr(rstrip(call.passages_list[Selected[1]]))
       /\ lower(call.return_type) = "list"
              => call.result = PyList(<<call.passages_list[Selected[1]]>>)

\* C6: Retriever.retrieve returns the Lexical Index's passages unchanged and
\* in order, formatted as the hybrid engine formats a list: text-like output
\* is the passages joined by a newline with leading and trailing whitespace
\* trimmed from the final string, list-like output is the list itself.
C6_LexicalFormat ==
    (call.op = "Retriever.retrieve" /\ call.outcome = "returned")
    => /\ lower(call.return_type) \in TextTypes
              => /\ call.result = PyStr(strip(join(call.passages_list)))
                 /\ call.result = FormatReranked(call.passages_list,
                                                 call.return_type)
       /\ lower(call.return_type) = "list"
              => call.result = PyList(call.passages_list)

\* C7: a retrieval over an empty candidate set never returns a result:
\* HybridRetriever.retrieve fails when the Lexical Index returns no
\* candidate, and the contrastive engine fails when called with no
\* candidates; neither returns an empty list or an empty string.
C7_EmptyCandidates ==
    (/\ Len(call.passages_list) = 0
     /\ \/ call.op \in HybridOps /\ call.lex_calls = 1
        \/ call.op = "TriRetriever.retrieve")
    => /\ call.outcome = "raised"
       /\ call.result = None

C7_Witness ==
    /\ call.op = "HybridRetriever.retrieve"
    /\ call.return_type = "Text"
    /\ call.lex_calls = 1
    /\ Len(call.passages_list) = 0
    /\ call.emb_calls = 2
    /\ call.err = "ValueError"

\* ------------------------------------------------------------------------
\* Properties of the chunker
\* ------------------------------------------------------------------------
\* document[lo : lo + size], written out
Window(document, lo, size) ==
    [n \in 1..(Min(lo + size, Len(document)) - lo) |-> document[lo + n]]

\* C8: for every document and 0 <= overlap_size < chunk_size the chunker
\* ends (at most one iteration per character) and chunk i is exactly
\* D[i*(c-o) : i*(c-o)+c]; every chunk but possibly the last has length c
\* and no chunk is empty.
C8_Chunks ==
    run.called
    => LET step == run.chunk_size - run.overlap_size
       IN  /\ Len(run.chunks) <= Len(run.document)
           /\ \A i \in 1..Len(run.chunks) :
                  /\ (i - 1) * step < Len(run.document)
                  /\ run.chunks[i] =
                         Window(run.document, (i - 1) * step, run.chunk_size)
                  /\ Len(run.chunks[i]) > 0
                  /\ i < Len(run.chunks)
                         => Len(run.chunks[i]) = run.chunk_size

C8_Witness ==
    /\ run.called
    /\ run.chunk_size = 3
    /\ run.overlap_size = 2
    /\ Len(run.document) = 4
    /\ Len(run.chunks) = 3
    /\ Len(run.chunks[3]) = 2

\* ------------------------------------------------------------------------
\* Properties of construction and the corpus cache
\* ------------------------------------------------------------------------
\* C9: construction with caching enabled reads the corpus from the cache
\* file when present and otherwise chunks the source and writes the file; in
\* both cases it completes with a Lexical Index built over that corpus, so a
\* second construction (cache hit) succeeds over the corpus the first wrote.
C9_CachedConstruction ==
    (ctor.cls # "none" /\ ctor.use_cache)
    => /\ ctor.outcome = "constructed"
       /\ ctor.cache_file_path \in DOMAIN fs
       /\ ctor.langchain_retriever =
              from_documents(pickle_load(fs[ctor.cache_file_path].data))

\* C10: the cache file of a HybridRetriever is keyed by the triple the
\* engine chunks with: constructions whose chunking inputs differ never
\* resolve to the same cache file, so a corpus restored from a cache file a
\* HybridRetriever wrote is the one chunking with the restoring engine's own
\* parameters produces.
C10_CacheKey ==
    (/\ ctor.cls = "HybridRetriever"
     /\ ctor.hit
     /\ fs[ctor.cache_file_path].written_by = "HybridRetriever")
    => ctor.self_split_docs = load_and_split(ctor.config.HybridRetriever)

====
